---- MODULE Spec2Model ----
(***************************************************************************)
(* ghmerge: the command-line workflow that resolves the inputs of a pull   *)
(* request, pushes the source branch and runs `gh pr create`.              *)
(*                                                                         *)
(* The repository holds two workflow files that export main():             *)
(*   "lib"  : src/lib/index.js       (prompts for the description, pushes  *)
(*            only when the remote lacks the branch)                       *)
(*   "part" : src/unnamed/part_000   (description defaults without prompt, *)
(*            prompts for labels/reviewers/assignees, always pushes)       *)
(* The variable `variant` says which of them the run executes.             *)
(*                                                                         *)
(* JavaScript strings are sequences of one-character strings; JavaScript   *)
(* null is the value `null` below, which is no such sequence.              *)
(***************************************************************************)
EXTENDS Naturals, Sequences, FiniteSets, TLC

VARIABLES
  variant,       \* which workflow file runs: "lib" or "part"
  argv,          \* process.argv.slice(2)
  pc,            \* position of main()
  args,          \* the record parseArgs returned
  sourceBranch,  \* main's const sourceBranch
  defaultTitle,  \* main's const defaultTitle
  req,           \* what collectInputs returned (with the options main passes on)
  log,           \* the external commands executed so far, in order
  out,           \* what the run printed that the claims speak of
  error,         \* the message of the error that reached the top level
  exitCode       \* the process exit code, NoExit while running

vars == <<variant, argv, pc, args, sourceBranch, defaultTitle, req, log, out,
          error, exitCode>>

Variants == {"lib", "part"}

----------------------------------------------------------------------------
(* Strings *)

null == <<"null">>
NoExit == "running"

IsWhitespace(c) == c \in {" ", "\n"}

RECURSIVE TrimStart(_)
TrimStart(s) ==
  IF s # <<>> /\ IsWhitespace(Head(s)) THEN TrimStart(Tail(s)) ELSE s

RECURSIVE TrimEnd(_)
TrimEnd(s) ==
  IF s # <<>> /\ IsWhitespace(s[Len(s)]) THEN TrimEnd(SubSeq(s, 1, Len(s) - 1))
  ELSE s

\* String.prototype.trim
Trim(s) == TrimEnd(TrimStart(s))

\* JavaScript's !x for a value that is null or a string
Falsy(x) == x = null \/ x = <<>>

\* s.replace(/"/g, '\\"')
RECURSIVE EscapeQuotes(_)
EscapeQuotes(s) ==
  IF s = <<>> THEN <<>>
  ELSE (IF Head(s) = "\"" THEN <<"\\", "\"">> ELSE <<Head(s)>>)
       \o EscapeQuotes(Tail(s))

OriginPrefix == <<"o", "r", "i", "g", "i", "n", "/">>

StartsWith(s, p) == Len(s) >= Len(p) /\ SubSeq(s, 1, Len(p)) = p

\* list.join(sep)
RECURSIVE Join(_, _)
Join(list, sep) ==
  IF list = <<>> THEN <<>>
  ELSE IF Len(list) = 1 THEN list[1]
  ELSE list[1] \o sep \o Join(Tail(list), sep)

\* s.split(',')
RECURSIVE SplitFrom(_, _)
SplitFrom(s, cur) ==
  IF s = <<>> THEN <<cur>>
  ELSE IF Head(s) = "," THEN <<cur>> \o SplitFrom(Tail(s), <<>>)
  ELSE SplitFrom(Tail(s), Append(cur, Head(s)))

SplitComma(s) == SplitFrom(s, <<>>)

RECURSIVE MapTrim(_)
MapTrim(list) ==
  IF list = <<>> THEN <<>> ELSE <<Trim(Head(list))>> \o MapTrim(Tail(list))

RECURSIVE FilterNonEmpty(_)
FilterNonEmpty(list) ==
  IF list = <<>> THEN <<>>
  ELSE (IF Head(list) # <<>> THEN <<Head(list)>> ELSE <<>>)
       \o FilterNonEmpty(Tail(list))

\* faulty variant: the filter step is missing
ParseCommaListKeepEmpty(s) == MapTrim(SplitComma(s))

\* input.split(',').map(x => x.trim()).filter(x => x)
ParseCommaList(s) == FilterNonEmpty(MapTrim(SplitComma(s)))

----------------------------------------------------------------------------
(* Command-line tokens *)

F_h == <<"-", "h">>
F_help == <<"-", "-", "h", "e", "l", "p">>
F_t == <<"-", "t">>
F_title == <<"-", "-", "t", "i", "t", "l", "e">>
F_d == <<"-", "d">>
F_description == <<"-", "-", "d", "e", "s", "c", "r", "i", "p", "t", "i", "o", "n">>
F_b == <<"-", "b">>
F_base == <<"-", "-", "b", "a", "s", "e">>
F_s == <<"-", "s">>
F_source == <<"-", "-", "s", "o", "u", "r", "c", "e">>
F_draft == <<"-", "-", "d", "r", "a", "f", "t">>
F_l == <<"-", "l">>
F_label == <<"-", "-", "l", "a", "b", "e", "l">>
F_r == <<"-", "r">>
F_reviewer == <<"-", "-", "r", "e", "v", "i", "e", "w", "e", "r">>
F_a == <<"-", "a">>
F_assignee == <<"-", "-", "a", "s", "s", "i", "g", "n", "e", "e">>
F_dryRun == <<"-", "-", "d", "r", "y", "-", "r", "u", "n">>
F_v == <<"-", "v">>
F_verbose == <<"-", "-", "v", "e", "r", "b", "o", "s", "e">>
F_o == <<"-", "o">>
F_w == <<"-", "w">>
F_web == <<"-", "-", "w", "e", "b">>
F_bogus == <<"-", "-", "b", "o", "g", "u", "s">>

\* the flags that take a value, with their short forms
ValueFlags == {F_t, F_title, F_d, F_description, F_b, F_base, F_s, F_source,
               F_l, F_label, F_r, F_reviewer, F_a, F_assignee}

\* case '-o': exists in part_000 only
WebFlags(v) == IF v = "part" THEN {F_o, F_w, F_web} ELSE {F_w, F_web}

\* the flags that take no value
PlainFlags(v) == {F_h, F_help, F_draft, F_dryRun, F_v, F_verbose} \cup WebFlags(v)

E_requiresValue == "requires a value"
E_unknownOption == "Unknown option"
NoError == "none"

\* const parsed = { help: false, title: null, ... }
ParsedDefaults ==
  [help |-> FALSE, title |-> null, description |-> null, base |-> null,
   source |-> null, draft |-> FALSE, labels |-> <<>>, reviewers |-> <<>>,
   assignees |-> <<>>, dryRun |-> FALSE, verbose |-> FALSE, web |-> FALSE,
   error |-> NoError]

\* the for loop of parseArgs from index i on (1-based); a thrown Error is the
\* record's error field
RECURSIVE parseLoop(_, _, _, _)
parseLoop(v, a, i, p) ==
  IF i > Len(a) THEN p
  ELSE
    LET arg == a[i]
        hasValue == i + 1 <= Len(a)
        missing == [p EXCEPT !.error = E_requiresValue]
    IN
    CASE arg \in {F_h, F_help} -> parseLoop(v, a, i + 1, [p EXCEPT !.help = TRUE])
      [] arg \in {F_t, F_title} ->
           IF hasValue THEN parseLoop(v, a, i + 2, [p EXCEPT !.title = a[i + 1]])
           ELSE missing
      [] arg \in {F_d, F_description} ->
           IF hasValue
           THEN parseLoop(v, a, i + 2, [p EXCEPT !.description = a[i + 1]])
           ELSE missing
      [] arg \in {F_b, F_base} ->
           IF hasValue THEN parseLoop(v, a, i + 2, [p EXCEPT !.base = a[i + 1]])
           ELSE missing
      [] arg \in {F_s, F_source} ->
           IF hasValue THEN parseLoop(v, a, i + 2, [p EXCEPT !.source = a[i + 1]])
           ELSE missing
      [] arg = F_draft -> parseLoop(v, a, i + 1, [p EXCEPT !.draft = TRUE])
      [] arg \in {F_l, F_label} ->
           IF hasValue
           THEN parseLoop(v, a, i + 2,
                          [p EXCEPT !.labels = Append(p.labels, a[i + 1])])
           ELSE missing
      [] arg \in {F_r, F_reviewer} ->
           IF hasValue
           THEN parseLoop(v, a, i + 2,
                          [p EXCEPT !.reviewers = Append(p.reviewers, a[i + 1])])
           ELSE missing
      [] arg \in {F_a, F_assignee} ->
           IF hasValue
           THEN parseLoop(v, a, i + 2,
                          [p EXCEPT !.assignees = Append(p.assignees, a[i + 1])])
           ELSE missing
      [] arg = F_dryRun -> parseLoop(v, a, i + 1, [p EXCEPT !.dryRun = TRUE])
      [] arg \in {F_v, F_verbose} ->
           parseLoop(v, a, i + 1, [p EXCEPT !.verbose = TRUE])
      [] arg \in WebFlags(v) -> parseLoop(v, a, i + 1, [p EXCEPT !.web = TRUE])
      [] OTHER -> [p EXCEPT !.error = E_unknownOption]

\* faulty variant: the Error thrown by the loop is swallowed
parseArgsIgnoringErrors(v, a) ==
  [parseLoop(v, a, 1, ParsedDefaults) EXCEPT !.error = NoError]

parseArgs(v, a) == parseLoop(v, a, 1, ParsedDefaults)

----------------------------------------------------------------------------
(* External commands and their outcomes *)

\* execSync threw (non-zero exit, command not found, prompt cancelled)
Throw == <<"throw">>

E_commandFailed == "Command failed"
E_typeError == "TypeError"
E_gumMissing == "gum is not installed"
E_ghMissing == "gh CLI is not installed"
E_notAuthenticated == "Not authenticated with GitHub CLI"
E_notRepo == "Not in a git repository"
E_notOnBranch == "Not on a git branch"
E_titleRequired == "PR title is required"
E_destRequired == "Destination branch is required"
E_createFailed == "Failed to create PR"

C_whichGum == "which gum"
C_whichGh == "which gh"
C_authStatus == "gh auth status"
C_revParse == "git rev-parse --git-dir"
C_showCurrent == "git branch --show-current"
C_gitLog == "git log -1 --pretty=%s"
C_gumTitle == "gum input PR title"
C_gumWrite == "gum write PR description"
C_gumBase == "gum input Destination branch"
C_gumLabels == "gum input Labels"
C_gumReviewers == "gum input Reviewers"
C_gumAssignees == "gum input Assignees"
C_lsRemote == "git ls-remote --heads origin"
C_pushUpstream == "git push -u origin"
C_pushPlain == "git push"
C_prCreate == "gh pr create"

PromptCmds == {C_gumTitle, C_gumWrite, C_gumBase, C_gumLabels, C_gumReviewers,
               C_gumAssignees}
PushCmds == {C_pushUpstream, C_pushPlain}

\* one executed command: its name, the argument interpolated into it,
\* whether the process exited with 0, its trimmed standard output, and for
\* a push the branch git is asked to push (null for the other commands)
Cmd(c, a, o) ==
  [cmd |-> c, arg |-> a, ok |-> (o # Throw),
   output |-> IF o = Throw THEN <<>> ELSE Trim(o),
   branch |-> IF c = C_pushUpstream THEN a ELSE null]

\* exec(`git push`, ...): no branch is on the command, git pushes the
\* branch that is checked out
PlainPush(head, o) == [Cmd(C_pushPlain, <<>>, o) EXCEPT !.branch = head]

\* execSilent(command): the trimmed output, or the exception
execSilent(o) == IF o = Throw THEN Throw ELSE Trim(o)

\* exec(command, silent) once the command exited with 0: part_000 returns
\* '' for the null that execSync returns under stdio 'inherit'; lib/index.js
\* calls .trim() on that null, and the TypeError is rethrown by its catch
execReturn(v, silent) ==
  IF v = "lib" /\ ~silent THEN E_typeError ELSE NoError

\* exec(command, silent): the error that leaves it, NoError when it returns
\* faulty variant: the catch block of exec swallows the error
execIgnoringFailure(v, silent, o) == execReturn(v, silent)

exec(v, silent, o) ==
  IF o = Throw THEN E_commandFailed ELSE execReturn(v, silent)

----------------------------------------------------------------------------
(* collectInputs *)

\* faulty variant: a cancelled title prompt is read as the empty string
resolveTitleCancelAsEmpty(pre, o) ==
  IF Falsy(pre.title) THEN (IF o = Throw THEN <<>> ELSE Trim(o)) ELSE pre.title

\* let title = prefilledValues.title; if (!title) title = execSilent(gum input)
titlePrompted(pre) == Falsy(pre.title)
resolveTitle(pre, o) == IF titlePrompted(pre) THEN execSilent(o) ELSE pre.title

\* lib/index.js: prompt when description is null, '' when the prompt throws;
\* part_000: prefilledValues.description !== undefined ? it : ''  (parseArgs
\* sets null, never undefined)
\* faulty variant: lib/index.js tests !description, so '' is prompted for
descriptionPromptedFalsy(v, pre) == v = "lib" /\ Falsy(pre.description)

descriptionPrompted(v, pre) == v = "lib" /\ pre.description = null
resolveDescription(v, pre, o) ==
  IF descriptionPrompted(v, pre)
  THEN (IF o = Throw THEN <<>> ELSE execSilent(o))
  ELSE pre.description

\* faulty variant: the destination branch is prompted for even when supplied
basePromptedAlways(pre) == TRUE

\* let destBranch = prefilledValues.base; if (!destBranch) destBranch = execSilent(gum input)
basePrompted(pre) == Falsy(pre.base)
resolveBase(pre, o) == IF basePrompted(pre) THEN execSilent(o) ELSE pre.base

\* part_000: if (hasWebFlag && draft) { warn; draft = false }
\* lib/index.js has no such step: main passes args.draft to createPR
draftConflict(v, pre) == v = "part" /\ pre.web /\ pre.draft
resolveDraft(v, pre) == IF draftConflict(v, pre) THEN FALSE ELSE pre.draft

\* faulty variant: the list prompts ignore what the command line gave
listPromptedAlways(v, given) == v = "part"

\* part_000: the labels / reviewers / assignees blocks; lib/index.js passes
\* the command-line lists to createPR and never prompts for them
listPrompted(v, given) == v = "part" /\ Len(given) = 0
\* faulty variant: part_000 takes the list from the prompt whatever was given
resolveListFromPrompt(v, given, o) ==
  IF v = "part"
  THEN IF o = Throw THEN <<>>
       ELSE IF execSilent(o) # <<>> THEN ParseCommaList(execSilent(o))
       ELSE <<>>
  ELSE given

resolveList(v, given, o) ==
  IF listPrompted(v, given)
  THEN IF o = Throw THEN <<>>
       ELSE IF execSilent(o) # <<>> THEN ParseCommaList(execSilent(o))
       ELSE <<>>
  ELSE given

\* if (!title) throw new Error('PR title is required')
titleMissing(title) == Falsy(title)

\* faulty variant: only a null destination branch is rejected
destMissingNullOnly(destBranch) == destBranch = null

\* if (!destBranch) throw new Error('Destination branch is required')
destMissing(destBranch) == Falsy(destBranch)

\* faulty variant: the list prompts run outside a try block
listPromptThrowsUncaught(v, given, o) == listPrompted(v, given) /\ o = Throw

\* try { ...gum input... } catch { labels = [] }: the failure of a list
\* prompt never leaves collectInputs
listPromptThrows(v, given, o) == FALSE

When(cond, c, a, o) == IF cond THEN <<Cmd(c, a, o)>> ELSE <<>>

\* The whole of collectInputs. o holds the outcome of each prompt, read only
\* for the prompts that are issued. The result holds the error thrown
\* (NoError on return), the commands executed and the returned object.
collectInputs(v, dflt, pre, o) ==
  LET title == resolveTitle(pre, o.title)
      description == resolveDescription(v, pre, o.description)
      destBranch == resolveBase(pre, o.base)
      cTitle == When(titlePrompted(pre), C_gumTitle, EscapeQuotes(dflt), o.title)
      cDesc == When(descriptionPrompted(v, pre), C_gumWrite, <<>>, o.description)
      cBase == When(basePrompted(pre), C_gumBase, <<>>, o.base)
      cLists ==
        When(listPrompted(v, pre.labels), C_gumLabels, <<>>, o.labels)
        \o When(listPrompted(v, pre.reviewers), C_gumReviewers, <<>>, o.reviewers)
        \o When(listPrompted(v, pre.assignees), C_gumAssignees, <<>>, o.assignees)
      none == [title |-> null, description |-> null, destBranch |-> null,
               draft |-> FALSE, labels |-> <<>>, reviewers |-> <<>>,
               assignees |-> <<>>]
  IN
  IF title = Throw
  THEN [error |-> E_commandFailed, cmds |-> cTitle, warned |-> FALSE, r |-> none]
  ELSE IF titleMissing(title)
  THEN [error |-> E_titleRequired, cmds |-> cTitle, warned |-> FALSE, r |-> none]
  ELSE IF destBranch = Throw
  THEN [error |-> E_commandFailed, cmds |-> cTitle \o cDesc \o cBase,
        warned |-> FALSE, r |-> none]
  ELSE IF destMissing(destBranch)
  THEN [error |-> E_destRequired, cmds |-> cTitle \o cDesc \o cBase,
        warned |-> FALSE, r |-> none]
  ELSE IF \/ listPromptThrows(v, pre.labels, o.labels)
          \/ listPromptThrows(v, pre.reviewers, o.reviewers)
          \/ listPromptThrows(v, pre.assignees, o.assignees)
  THEN [error |-> E_commandFailed, cmds |-> cTitle \o cDesc \o cBase \o cLists,
        warned |-> FALSE, r |-> none]
  ELSE [error |-> NoError,
        cmds |-> cTitle \o cDesc \o cBase \o cLists,
        warned |-> draftConflict(v, pre),
        r |-> [title |-> title, description |-> description,
               destBranch |-> destBranch,
               draft |-> resolveDraft(v, pre),
               labels |-> resolveList(v, pre.labels, o.labels),
               reviewers |-> resolveList(v, pre.reviewers, o.reviewers),
               assignees |-> resolveList(v, pre.assignees, o.assignees)]]

----------------------------------------------------------------------------
(* createPR *)

\* faulty variant: the origin/ prefix is left on the base
stripOriginKept(destBranch) == destBranch

\* destBranch.replace(/^origin\//, '')
stripOrigin(destBranch) ==
  IF StartsWith(destBranch, OriginPrefix)
  THEN SubSeq(destBranch, Len(OriginPrefix) + 1, Len(destBranch))
  ELSE destBranch

\* if (options.draft) command += ' --draft'
draftFlag(options) == options.draft

\* faulty variant: the length test is missing
listFlagAlways(list) == <<Join(list, <<",">>)>>

\* if (options.X && options.X.length > 0) command += ` --X "${options.X.join(',')}"`
listFlag(list) == IF Len(list) > 0 THEN <<Join(list, <<",">>)>> ELSE <<>>

\* the command string createPR builds; an optional argument is a sequence
\* holding its value when the argument is on the command, empty otherwise
prCommand(title, description, source, destBranch, options) ==
  [base |-> stripOrigin(destBranch),
   head |-> source,
   title |-> EscapeQuotes(title),
   body |-> EscapeQuotes(description),
   draft |-> draftFlag(options),
   label |-> listFlag(options.labels),
   reviewer |-> listFlag(options.reviewers),
   assignee |-> listFlag(options.assignees),
   web |-> options.web]

----------------------------------------------------------------------------
(* The command lines and the outcomes of the external commands explored *)

S_fix == <<"F", "i", "x">>
S_quoted == <<"\"", "D", "\"">>
S_main == <<"m", "a", "i", "n">>
S_originMain == OriginPrefix \o S_main
S_upOriginMain == <<"u", "p", "/">> \o S_originMain
S_feature == <<"f", "/", "x">>
S_current == <<"c", "u", "r">>
S_gone == <<"g", "o">>
S_commit == <<"W", "I", "P">>
S_pullRequest == <<"P", "u", "l", "l", " ", "R", "e", "q", "u", "e", "s", "t">>
S_url == <<"u", "r", "l">>
S_bug == <<"b", "u", "g">>
S_urgent == <<"u", "r", "g">>
S_alice == <<"a", "l">>
S_bob == <<"b", "o">>

\* the longest free-form command line explored
MaxArgs == 3

Absent == <<"absent">>
Opt(flag, val) == IF val = Absent THEN <<>> ELSE <<flag, val>>
Flag(flag, on) == IF on THEN <<flag>> ELSE <<>>
RECURSIVE Repeat(_, _)
Repeat(flag, vals) ==
  IF vals = <<>> THEN <<>> ELSE <<flag, Head(vals)>> \o Repeat(flag, Tail(vals))

\* command lines that vary how the scalar inputs are supplied
ResolutionLines ==
  { Opt(F_title, t) \o Opt(F_d, d) \o Opt(F_base, b) \o Opt(F_s, s)
      \o Flag(F_dryRun, dry) :
    t \in {Absent, <<>>, S_fix}, d \in {Absent, <<>>, S_quoted},
    b \in {Absent, <<>>, S_main, S_originMain}, s \in {Absent, S_feature},
    dry \in BOOLEAN }

\* command lines that supply title and base and vary the options
OptionLines ==
  { <<F_t, S_fix, F_b, b>> \o Opt(F_description, d) \o Flag(F_draft, draft)
      \o Flag(w, w # Absent) \o Repeat(F_l, ls) \o Repeat(F_reviewer, rs)
      \o Repeat(F_a, as) \o Flag(F_dryRun, dry) :
    b \in {S_main, S_originMain, S_upOriginMain}, d \in {Absent, S_quoted},
    draft \in BOOLEAN,
    w \in {Absent, F_web, F_o}, ls \in {<<>>, <<S_bug, S_urgent>>},
    rs \in {<<>>, <<S_alice>>}, as \in {<<>>, <<S_bob>>}, dry \in BOOLEAN }

\* every command line of at most MaxArgs of these tokens
FreeTokens == {F_help, F_h, F_title, F_b, F_l, F_dryRun, F_v, F_bogus, S_fix}
FreeLines == UNION { [1..n -> FreeTokens] : n \in 0..MaxArgs }

\* command lines that name a source branch, local or not
SourceLines ==
  { <<F_t, S_fix, F_b, S_main, F_d, S_quoted, F_source, s>>
      \o Flag(F_dryRun, dry) :
    s \in {S_feature, S_gone}, dry \in BOOLEAN }

CommandLines == ResolutionLines \cup OptionLines \cup SourceLines \cup FreeLines

\* what a single-line prompt can give: cancelled, or the text entered
PromptOutcomes == {Throw, <<" ">>, <<"T", "\n">>}
BaseOutcomes == {Throw, <<>>, <<"d", "e", "v", "\n">>}
WriteOutcomes == {Throw, <<"B", "\n">>}
ListOutcomes == {Throw, <<>>, <<"x", ",", " ", ",", "y", " ">>}
ReviewerOutcomes == {Throw, <<"r", "\n">>}
AssigneeOutcomes == {<<>>, <<" ", ",", "a">>}
BranchOutcomes == {Throw, <<"\n">>, S_current \o <<"\n">>}
LogOutcomes == {Throw, S_commit \o <<"\n">>}
RemoteOutcomes == {Throw, <<>>, <<"r", "e", "f", "\n">>}
ExitOutcomes == {Throw, <<>>}

\* the branches of the local repository, and those the working tree can
\* have checked out
LocalBranches == {S_feature, S_current}
HeadBranches == LocalBranches
CreateOutcomes == {Throw, S_url \o <<"\n">>}

NoRequest ==
  [title |-> null, description |-> null, destBranch |-> null, draft |-> FALSE,
   labels |-> <<>>, reviewers |-> <<>>, assignees |-> <<>>]

NoOutput ==
  [help |-> FALSE, warned |-> FALSE, report |-> <<>>, pr |-> <<>>,
   success |-> FALSE, url |-> <<>>]

----------------------------------------------------------------------------
(* main *)

Init ==
  /\ variant \in Variants
  /\ argv \in CommandLines
  /\ pc = "start"
  /\ args = ParsedDefaults
  /\ sourceBranch = null
  /\ defaultTitle = null
  /\ req = NoRequest
  /\ log = <<>>
  /\ out = NoOutput
  /\ error = NoError
  /\ exitCode = NoExit

\* main().catch: console.error(`Error: ${error.message}`); process.exit(1)
\* faulty variant: the top-level handler prints the message and returns
FailExitZero(e) ==
  /\ pc' = "failed"
  /\ error' = e
  /\ exitCode' = 0

Fail(e) ==
  /\ pc' = "failed"
  /\ error' = e
  /\ exitCode' = 1

Goto(p) ==
  /\ pc' = p
  /\ UNCHANGED <<error, exitCode>>

\* main resolves: the process ends with exit code 0
Finish ==
  /\ pc' = "done"
  /\ exitCode' = 0
  /\ UNCHANGED error

\* faulty variant: the help test is skipped
helpRequestedNever(p) == FALSE

\* if (args.help) { showHelp(); return; } -- tested on the parsed record,
\* after parseArgs has returned
helpRequested(p) == p.help

\* const args = parseArgs(); if (args.help) { showHelp(); return; }
ParseArgs ==
  /\ pc = "start"
  /\ LET p == parseArgs(variant, argv) IN
       /\ args' = p
       /\ IF p.error # NoError THEN Fail(p.error) /\ UNCHANGED out
          ELSE IF helpRequested(p) THEN Finish /\ out' = [out EXCEPT !.help = TRUE]
          ELSE Goto("checkGum") /\ UNCHANGED out
  /\ UNCHANGED <<variant, argv, sourceBranch, defaultTitle, req, log>>

\* faulty variant: gum is required on every run
needsGumAlways(v, a) == TRUE

\* const needsGum = ...
needsGum(v, a) ==
  IF v = "lib" THEN Falsy(a.title) \/ Falsy(a.description) \/ Falsy(a.base)
  ELSE Falsy(a.title) \/ Falsy(a.base)

\* try { execSilent(`which ${command}`); return true; } catch { return false; }
isCommandAvailable(o) == o # Throw

\* try { execSilent('gh auth status'); return true; } catch { return false; }
isGhAuthenticated(o) == o # Throw

\* faulty variant: the catch branch returns true as well
isGitRepoAlways(o) == TRUE

\* try { execSilent('git rev-parse --git-dir'); return true; } catch { return false; }
isGitRepo(o) == o # Throw

\* if (needsGum && !isCommandAvailable('gum')) throw
CheckGum ==
  /\ pc = "checkGum"
  /\ IF needsGum(variant, args)
     THEN \E o \in ExitOutcomes :
            /\ log' = Append(log, Cmd(C_whichGum, <<>>, o))
            /\ IF ~isCommandAvailable(o) THEN Fail(E_gumMissing) ELSE Goto("checkGh")
     ELSE Goto("checkGh") /\ UNCHANGED log
  /\ UNCHANGED <<variant, argv, args, sourceBranch, defaultTitle, req, out>>

\* if (!isCommandAvailable('gh')) throw
CheckGh ==
  /\ pc = "checkGh"
  /\ \E o \in ExitOutcomes :
       /\ log' = Append(log, Cmd(C_whichGh, <<>>, o))
       /\ IF ~isCommandAvailable(o) THEN Fail(E_ghMissing) ELSE Goto("checkAuth")
  /\ UNCHANGED <<variant, argv, args, sourceBranch, defaultTitle, req, out>>

\* if (!isGhAuthenticated()) throw
CheckAuth ==
  /\ pc = "checkAuth"
  /\ \E o \in ExitOutcomes :
       /\ log' = Append(log, Cmd(C_authStatus, <<>>, o))
       /\ IF ~isGhAuthenticated(o) THEN Fail(E_notAuthenticated) ELSE Goto("checkRepo")
  /\ UNCHANGED <<variant, argv, args, sourceBranch, defaultTitle, req, out>>

\* if (!isGitRepo()) throw
CheckRepo ==
  /\ pc = "checkRepo"
  /\ \E o \in ExitOutcomes :
       /\ log' = Append(log, Cmd(C_revParse, <<>>, o))
       /\ IF ~isGitRepo(o) THEN Fail(E_notRepo) ELSE Goto("source")
  /\ UNCHANGED <<variant, argv, args, sourceBranch, defaultTitle, req, out>>

\* faulty variant: the empty current branch is accepted
notOnBranchNever(branch) == FALSE

\* if (!sourceBranch) throw new Error('Not on a git branch')
notOnBranch(branch) == Falsy(branch)

\* const sourceBranch = args.source || getCurrentBranch();
\* if (!sourceBranch) throw new Error('Not on a git branch')
DetermineSource ==
  /\ pc = "source"
  /\ IF ~Falsy(args.source)
     THEN /\ sourceBranch' = args.source
          /\ Goto("defaultTitle")
          /\ UNCHANGED log
     ELSE \E o \in BranchOutcomes :
            /\ log' = Append(log, Cmd(C_showCurrent, <<>>, o))
            /\ IF o = Throw THEN Fail(E_commandFailed) /\ UNCHANGED sourceBranch
               ELSE IF notOnBranch(execSilent(o))
               THEN Fail(E_notOnBranch) /\ UNCHANGED sourceBranch
               ELSE Goto("defaultTitle") /\ sourceBranch' = execSilent(o)
  /\ UNCHANGED <<variant, argv, args, defaultTitle, req, out>>

\* getLastCommitTitle() || 'Pull Request'
lastCommitOrFallback(o) ==
  IF o = Throw \/ Falsy(execSilent(o)) THEN S_pullRequest ELSE execSilent(o)

\* const defaultTitle = getLastCommitTitle() || 'Pull Request'
GetDefaultTitle ==
  /\ pc = "defaultTitle"
  /\ \E o \in LogOutcomes :
       /\ log' = Append(log, Cmd(C_gitLog, <<>>, o))
       /\ defaultTitle' = lastCommitOrFallback(o)
  /\ Goto("collect")
  /\ UNCHANGED <<variant, argv, args, sourceBranch, req, out>>

\* faulty variant: the dry-run return is missing
afterCollectAlwaysPush(a) == "push"

\* if (args.dryRun) { report; return; }  else push and create
afterCollect(a) == IF a.dryRun THEN "dryRun" ELSE "push"

\* the outcomes to explore for a prompt: one value when it is not issued
Outcomes(issued, set) == IF issued THEN set ELSE {Throw}

\* const { title, ... } = collectInputs(defaultTitle, sourceBranch, args)
CollectInputs ==
  /\ pc = "collect"
  /\ \E ot \in Outcomes(titlePrompted(args), PromptOutcomes),
        od \in Outcomes(descriptionPrompted(variant, args), WriteOutcomes),
        ob \in Outcomes(basePrompted(args), BaseOutcomes),
        ol \in Outcomes(listPrompted(variant, args.labels), ListOutcomes),
        or \in Outcomes(listPrompted(variant, args.reviewers), ReviewerOutcomes),
        oa \in Outcomes(listPrompted(variant, args.assignees), AssigneeOutcomes) :
       LET c == collectInputs(variant, defaultTitle, args,
                              [title |-> ot, description |-> od, base |-> ob,
                               labels |-> ol, reviewers |-> or, assignees |-> oa])
       IN /\ log' = log \o c.cmds
          /\ out' = [out EXCEPT !.warned = c.warned]
          /\ req' = c.r
          /\ IF c.error # NoError THEN Fail(c.error)
             ELSE Goto(afterCollect(args))
  /\ UNCHANGED <<variant, argv, args, sourceBranch, defaultTitle>>

\* faulty variant: any successful query counts as "exists", its output unread
isRemoteBranchExistsOnOk(o) == o # Throw

\* faulty variant: the catch block answers true
isRemoteBranchExistsTrueOnError(o) ==
  IF o = Throw THEN TRUE ELSE Len(execSilent(o)) > 0

\* isRemoteBranchExists(branch): output.length > 0, false when the query throws
isRemoteBranchExists(o) == IF o = Throw THEN FALSE ELSE Len(execSilent(o)) > 0

\* what the dry-run block prints: lib/index.js prints the command-line
\* draft and lists, part_000 the resolved ones
dryRunReport(a, r, source, exists) ==
  [title |-> r.title,
   description |-> IF Falsy(r.description) THEN <<"(empty)">> ELSE r.description,
   source |-> source,
   base |-> r.destBranch,
   draft |-> r.draft,
   labels |-> r.labels, reviewers |-> r.reviewers, assignees |-> r.assignees,
   web |-> a.web,
   wouldPush |-> ~exists]

\* if (args.dryRun) { ...; return; }
DryRunReport ==
  /\ pc = "dryRun"
  /\ \E o \in RemoteOutcomes :
       /\ log' = Append(log, Cmd(C_lsRemote, sourceBranch, o))
       /\ out' = [out EXCEPT !.report =
                    <<dryRunReport(args, req, sourceBranch,
                                   isRemoteBranchExists(o))>>]
  /\ Finish
  /\ UNCHANGED <<variant, argv, args, sourceBranch, defaultTitle, req>>

\* faulty variant: part_000 skips the push of a branch the remote has
pushCommandSkipExisting(v, exists) ==
  IF ~exists THEN <<C_pushUpstream>> ELSE <<>>

\* the push main runs for the answer of the remote query: part_000 pushes
\* either way, lib/index.js only when the branch is not on the remote
pushCommand(v, exists) ==
  IF ~exists THEN <<C_pushUpstream>>
  ELSE IF v = "part" THEN <<C_pushPlain>>
  ELSE <<>>

\* part_000: exec(cmd, args.web); lib/index.js: pushBranch -> exec(cmd)
pushSilent(v, a) == v = "part" /\ a.web

\* faulty variant: a failed push is attempted again
onPushErrorRetry(e) ==
  /\ pc' = "push"
  /\ UNCHANGED <<error, exitCode>>

\* exec rethrows and main has no handler around the push: the error leaves main
onPushError(e) == Fail(e)

\* the branches that can be checked out while main pushes: the one
\* getCurrentBranch returned when main asked, any branch when --source
\* spared main the question
checkedOut(a, source) == IF Falsy(a.source) THEN {source} ELSE HeadBranches

\* how a push can end: git push -u origin <branch> fails when <branch>
\* matches no local branch ("src refspec does not match any")
pushOutcomes(push, source) ==
  IF push = <<C_pushUpstream>> /\ source \notin LocalBranches
  THEN {Throw} ELSE ExitOutcomes

\* if (!isRemoteBranchExists(sourceBranch)) { push -u } else { push | skip }
PushDecision ==
  /\ pc = "push"
  /\ \E o \in RemoteOutcomes, head \in checkedOut(args, sourceBranch) :
     \E p \in pushOutcomes(pushCommand(variant, isRemoteBranchExists(o)),
                          sourceBranch) :
       LET exists == isRemoteBranchExists(o)
           push == pushCommand(variant, exists)
           query == Cmd(C_lsRemote, sourceBranch, o)
           pushed == IF push = <<C_pushUpstream>>
                     THEN Cmd(C_pushUpstream, sourceBranch, p)
                     ELSE PlainPush(head, p)
       IN IF push = <<>>
          THEN /\ log' = Append(log, query)
               /\ Goto("create")
          ELSE /\ log' = log \o <<query, pushed>>
               /\ IF exec(variant, pushSilent(variant, args), p) # NoError
                  THEN onPushError(exec(variant, pushSilent(variant, args), p))
                  ELSE Goto("create")
  /\ UNCHANGED <<variant, argv, args, sourceBranch, defaultTitle, req, out>>

\* the options object main hands to createPR
prOptions(a, r) ==
  [draft |-> r.draft, labels |-> r.labels, reviewers |-> r.reviewers,
   assignees |-> r.assignees, web |-> a.web]

\* const prUrl = createPR(title, description, sourceBranch, destBranch, {...})
CreatePR ==
  /\ pc = "create"
  /\ IF req.description = null
     THEN \* description.replace(...) on null
          /\ Fail(E_typeError)
          /\ UNCHANGED <<log, out>>
     ELSE \E o \in CreateOutcomes :
            /\ log' = Append(log, Cmd(C_prCreate, sourceBranch, o))
            /\ IF o = Throw
               THEN /\ Fail(E_createFailed)
                    /\ out' = [out EXCEPT !.pr =
                         <<prCommand(req.title, req.description, sourceBranch,
                                     req.destBranch, prOptions(args, req))>>]
               ELSE /\ Goto("report")
                    /\ out' = [out EXCEPT
                         !.pr = <<prCommand(req.title, req.description,
                                            sourceBranch, req.destBranch,
                                            prOptions(args, req))>>,
                         !.url = execSilent(o)]
  /\ UNCHANGED <<variant, argv, args, sourceBranch, defaultTitle, req>>

\* part_000: if (!args.web) { success message }; lib/index.js prints it always
successShown(v, a) == v = "lib" \/ ~a.web

\* the success message
Report ==
  /\ pc = "report"
  /\ out' = [out EXCEPT !.success = successShown(variant, args)]
  /\ Finish
  /\ UNCHANGED <<variant, argv, args, sourceBranch, defaultTitle, req, log>>

Next ==
  \/ ParseArgs
  \/ CheckGum
  \/ CheckGh
  \/ CheckAuth
  \/ CheckRepo
  \/ DetermineSource
  \/ GetDefaultTitle
  \/ CollectInputs
  \/ DryRunReport
  \/ PushDecision
  \/ CreatePR
  \/ Report

Spec == Init /\ [][Next]_vars

----------------------------------------------------------------------------
(* Vocabulary of the properties *)

Issued(c) == \E i \in DOMAIN log : log[i].cmd = c
PushIssued == \E i \in DOMAIN log : log[i].cmd \in PushCmds
PrIssued == Issued(C_prCreate)
PromptIssued == \E i \in DOMAIN log : log[i].cmd \in PromptCmds

\* the positions of the command line, from i on, where a flag is expected:
\* the token after a value-taking flag is its value, every other token is a
\* flag
RECURSIVE OptionPositions(_, _)
OptionPositions(a, i) ==
  IF i > Len(a) THEN {}
  ELSE {i} \cup OptionPositions(a, IF a[i] \in ValueFlags THEN i + 2 ELSE i + 1)

IsOptionPos(a, i) == i \in OptionPositions(a, 1)

HasFlag(fs) == \E i \in DOMAIN argv : IsOptionPos(argv, i) /\ argv[i] \in fs

\* the value that follows the last use of one of the flags fs, null if none
Supplied(fs) ==
  LET at == {i \in DOMAIN argv :
               IsOptionPos(argv, i) /\ argv[i] \in fs /\ i < Len(argv)}
  IN IF at = {} THEN null
     ELSE argv[(CHOOSE i \in at : \A j \in at : j <= i) + 1]

\* the command line is malformed: an unknown flag, or a value-taking flag
\* with nothing after it
Malformed ==
  \E i \in DOMAIN argv :
    /\ IsOptionPos(argv, i)
    /\ \/ argv[i] \notin (ValueFlags \cup PlainFlags(variant))
       \/ argv[i] \in ValueFlags /\ i = Len(argv)

\* input resolution has completed: main is past collectInputs
Resolved ==
  \/ pc \in {"dryRun", "push", "create", "report"}
  \/ Issued(C_lsRemote)

\* the remote-branch-existence query at position i of the log answered true
QueryTrue(i) == log[i].cmd = C_lsRemote /\ log[i].ok /\ log[i].output # <<>>
QueryFalse(i) == log[i].cmd = C_lsRemote /\ ~(log[i].ok /\ log[i].output # <<>>)

IsUpstreamPush(c) == c.cmd = C_pushUpstream /\ c.arg = sourceBranch

----------------------------------------------------------------------------
(* C1 *)

\* C1: a run whose command line carries the --dry-run flag never issues a
\* push command nor a pull-request-creation command, whatever the other
\* flags and whatever the external commands and prompts answer.
C1_DryRunIssuesNoPushNoCreate ==
  HasFlag({F_dryRun}) => ~PushIssued /\ ~PrIssued

C1_Witness ==
  /\ HasFlag({F_dryRun})
  /\ pc = "done"
  /\ out.report # <<>>
  /\ Issued(C_lsRemote)

(* C2 *)

C3_AbsentDescriptionResolvesEmpty ==
  (variant = "part" /\ Resolved /\ Supplied({F_d, F_description}) = null) =>
    /\ req.description = <<>>
    /\ error # E_typeError

(* C4 *)

\* C4 as stated: in a non-dry run, the remote query is followed by exactly
\* one push: the plain push when it answered true, the upstream-set push
\* when it answered false.
C4_ExactlyOnePush ==
  \A j \in DOMAIN log :
    (log[j].cmd = C_lsRemote /\ ~HasFlag({F_dryRun})) =>
      /\ j + 1 <= Len(log)
      /\ QueryTrue(j) => log[j + 1].cmd = C_pushPlain
      /\ QueryFalse(j) => IsUpstreamPush(log[j + 1])
      /\ Cardinality({k \in DOMAIN log : log[k].cmd \in PushCmds}) = 1

\* C4 amended: in a non-dry run, when the remote query answers false the
\* next command is the upstream-set push of the source branch; when it
\* answers true, part_000 issues the plain push next and lib/index.js issues
\* no push at all. No run issues more than one push.
C4_PushFollowsRemoteQuery ==
  /\ \A j \in DOMAIN log :
       (log[j].cmd = C_lsRemote /\ ~HasFlag({F_dryRun})) =>
         /\ QueryFalse(j) => j + 1 <= Len(log) /\ IsUpstreamPush(log[j + 1])
         /\ (QueryTrue(j) /\ variant = "part") =>
              /\ j + 1 <= Len(log)
              /\ log[j + 1].cmd = C_pushPlain
              /\ ~Issued(C_pushUpstream)
         /\ (QueryTrue(j) /\ variant = "lib") => ~PushIssued
  /\ Cardinality({k \in DOMAIN log : log[k].cmd \in PushCmds}) <= 1

C4_Witness ==
  /\ variant = "lib"
  /\ ~HasFlag({F_dryRun})
  /\ \E j \in DOMAIN log : QueryTrue(j)
  /\ ~PushIssued
  /\ PrIssued

(* C5 *)

\* C5 as stated: when the command line supplies a title and a base, whatever
\* their values, there is no prompt for the title and none for the
\* destination branch.
C5_NoPromptWhenSupplied ==
  (Supplied({F_t, F_title}) # null /\ Supplied({F_b, F_base}) # null) =>
    ~Issued(C_gumTitle) /\ ~Issued(C_gumBase)

\* C5 amended: when the command line supplies a non-empty title and a
\* non-empty base there is no prompt for either; a title or a base supplied
\* as the empty string is prompted for like a missing one.
C5_NoPromptWhenSuppliedNonEmpty ==
  /\ (~Falsy(Supplied({F_t, F_title})) /\ ~Falsy(Supplied({F_b, F_base}))) =>
       ~Issued(C_gumTitle) /\ ~Issued(C_gumBase)
  /\ (Resolved /\ Supplied({F_t, F_title}) = <<>>) => Issued(C_gumTitle)
  /\ (Resolved /\ Supplied({F_b, F_base}) = <<>>) => Issued(C_gumBase)

C5_Witness ==
  /\ Supplied({F_t, F_title}) = S_fix
  /\ Supplied({F_b, F_base}) = S_originMain
  /\ Resolved
  /\ req.title = S_fix
  /\ req.destBranch = S_originMain

(* C6 *)

\* C6: once input resolution has completed, the resolved title and the
\* resolved destination branch are non-empty strings.
C6_ResolvedTitleAndBaseNonEmpty ==
  Resolved =>
    /\ req.title \notin {null, <<>>}
    /\ req.destBranch \notin {null, <<>>}

C6_Witness ==
  /\ Resolved
  /\ Issued(C_gumTitle)
  /\ Issued(C_gumBase)
  /\ req.title = <<"T">>
  /\ req.destBranch = <<"d", "e", "v">>

(* C7 *)

\* C7: no pull-request-creation command carries both --draft and --web;
\* when both flags are requested, the command is issued without --draft,
\* the resolved draft is false and the warning was printed.
C7_NeverDraftWithWeb ==
  \A i \in DOMAIN out.pr :
    /\ ~(out.pr[i].draft /\ out.pr[i].web)
    /\ (HasFlag({F_draft}) /\ HasFlag(WebFlags(variant))) =>
         ~req.draft /\ out.warned /\ ~out.pr[i].draft

(* C8 *)

\* C8: the base of the pull-request-creation command is the resolved
\* destination branch without its leading origin/ when it has one, and the
\* resolved destination branch itself otherwise.
C8_BaseWithoutOriginPrefix ==
  \A i \in DOMAIN out.pr :
    IF StartsWith(req.destBranch, OriginPrefix)
    THEN OriginPrefix \o out.pr[i].base = req.destBranch
    ELSE out.pr[i].base = req.destBranch

C8_Witness ==
  /\ req.destBranch = S_originMain
  /\ out.pr # <<>>
  /\ out.pr[1].base = S_main
  /\ PrIssued

(* C9 *)

\* C9: a malformed command line (an unknown flag, or a value-taking flag
\* with no value after it) ends the run with a usage error and exit code 1
\* before any external command is executed.
C9_MalformedFailsBeforeAnyCommand ==
  Malformed =>
    /\ log = <<>>
    /\ pc \in {"start", "failed"}
    /\ ~out.help
    /\ pc = "failed" =>
         exitCode = 1 /\ error \in {E_requiresValue, E_unknownOption}

C9_Witness ==
  /\ Malformed
  /\ \E i \in DOMAIN argv : argv[i] = F_bogus
  /\ pc = "failed"
  /\ error = E_unknownOption
  /\ log = <<>>

(* C10 *)

TitlePromptCancelled ==
  \E i \in DOMAIN log : log[i].cmd = C_gumTitle /\ ~log[i].ok
TitlePromptEmpty ==
  \E i \in DOMAIN log : log[i].cmd = C_gumTitle /\ log[i].ok /\ log[i].output = <<>>

\* C10 as stated: when the title prompt is cancelled or answers the empty
\* string, the run fails with the error "PR title is required" and issues no
\* push and no pull-request-creation command.
C10_CancelledTitleIsValidationError ==
  (TitlePromptCancelled \/ TitlePromptEmpty) =>
    /\ pc = "failed"
    /\ error = E_titleRequired
    /\ ~PushIssued /\ ~PrIssued

\* C10 amended: when the title prompt answers the empty string the run fails
\* with the error "PR title is required"; when the title prompt is cancelled
\* the run fails with the error of the prompt command itself; in both cases
\* it issues no push and no pull-request-creation command.
C10_EmptyOrCancelledTitleFails ==
  /\ TitlePromptEmpty => pc = "failed" /\ error = E_titleRequired
  /\ TitlePromptCancelled => pc = "failed" /\ error = E_commandFailed
  /\ (TitlePromptCancelled \/ TitlePromptEmpty) =>
       exitCode = 1 /\ ~PushIssued /\ ~PrIssued

C10_Witness ==
  /\ Supplied({F_t, F_title}) = null
  /\ TitlePromptEmpty
  /\ pc = "failed"
  /\ error = E_titleRequired

(***************************************************************************)
(* C11  help                                                               *)
(***************************************************************************)
HelpFlags == {F_h, F_help}

\* C11 as stated: whenever --help or -h is on the command line, whatever
\* accompanies it, no external command is issued and the run, once past
\* parsing, has printed the usage text and ended with exit code 0.
C11_HelpAlwaysPrintsUsage ==
  HasFlag(HelpFlags) =>
    /\ log = <<>>
    /\ pc # "start" => pc = "done" /\ exitCode = 0 /\ out.help

\* C11 amended: a help flag on a well-formed command line prints the usage
\* text and ends with exit code 0; a help flag next to an unknown option or
\* a value flag without its value ends in the usage error with exit code 1
\* and no usage text; in both cases no external command is issued.
C11_HelpOnWellFormedLine ==
  HasFlag(HelpFlags) =>
    /\ log = <<>>
    /\ pc \in {"start", "done", "failed"}
    /\ pc # "start" /\ ~Malformed =>
         pc = "done" /\ exitCode = 0 /\ out.help /\ error = NoError
    /\ pc # "start" /\ Malformed =>
         pc = "failed" /\ exitCode = 1 /\ ~out.help /\ error = args.error

\* a help flag accompanied by other, well-formed arguments has ended the run
C11_Witness ==
  /\ HasFlag(HelpFlags) /\ HasFlag({F_title, F_dryRun, F_b})
  /\ ~Malformed /\ pc = "done" /\ out.help /\ exitCode = 0

(***************************************************************************)
(* C12  a failed prerequisite check ends the run at once                   *)
(***************************************************************************)
CheckCmds == {C_whichGum, C_whichGh, C_authStatus, C_revParse}

CheckError(c) ==
  IF c = C_whichGum THEN E_gumMissing
  ELSE IF c = C_whichGh THEN E_ghMissing
  ELSE IF c = C_authStatus THEN E_notAuthenticated
  ELSE E_notRepo

BranchQueryCmds == {C_showCurrent, C_gitLog, C_lsRemote}

\* C12: when a prerequisite check (gum when required, gh, authentication,
\* repository) fails, the run ends Failed with that check's error; the
\* failed check is the last command of the run, so no prompt, branch query,
\* push or pull-request command was issued, and no check ran twice.
C12_FailedCheckEndsRun ==
  \A i \in DOMAIN log :
    log[i].cmd \in CheckCmds /\ ~log[i].ok =>
      /\ pc = "failed" /\ exitCode = 1 /\ error = CheckError(log[i].cmd)
      /\ i = Len(log)
      /\ \A j \in DOMAIN log :
           /\ log[j].cmd \in CheckCmds
           /\ log[j].cmd \notin PromptCmds \cup BranchQueryCmds \cup PushCmds
           /\ log[j].cmd # C_prCreate
           /\ \A k \in DOMAIN log : log[k].cmd = log[j].cmd => k = j

\* the repository check failed after the earlier checks had passed
C12_Witness ==
  /\ Len(log) >= 3
  /\ log[Len(log)].cmd = C_revParse /\ ~log[Len(log)].ok
  /\ pc = "failed" /\ error = E_notRepo

(***************************************************************************)
(* C13  which prompts a run issues                                         *)
(***************************************************************************)
TitleFlags == {F_t, F_title}
BaseFlags == {F_b, F_base}
DescriptionFlags == {F_d, F_description}
SourceFlags == {F_s, F_source}
LabelFlags == {F_l, F_label}
ReviewerFlags == {F_r, F_reviewer}
AssigneeFlags == {F_a, F_assignee}

\* some use of one of the flags fs gives at least one list item
ListGiven(fs) ==
  \E i \in DOMAIN argv :
    /\ IsOptionPos(argv, i) /\ argv[i] \in fs /\ i < Len(argv)
    /\ ParseCommaList(argv[i + 1]) # <<>>

TitleAndBaseSupplied ==
  ~Falsy(Supplied(TitleFlags)) /\ ~Falsy(Supplied(BaseFlags))

\* C13 as stated: a run whose command line supplies both the title and the
\* destination branch issues no prompt command at all.
C13_NoPromptWhenTitleAndBaseSupplied ==
  TitleAndBaseSupplied => ~PromptIssued

\* C13 amended: every prompt issued is for a field the command line left
\* out: the title or base prompt for a missing or empty title or base, in
\* lib/index.js the description prompt for a description not supplied, in
\* part_000 the labels, reviewers and assignees prompts for a list not
\* supplied. A run that supplies all of those issues no prompt at all.
C13_PromptOnlyForFieldLeftOut ==
  /\ \A i \in DOMAIN log :
       /\ log[i].cmd = C_gumTitle => Falsy(Supplied(TitleFlags))
       /\ log[i].cmd = C_gumBase => Falsy(Supplied(BaseFlags))
       /\ log[i].cmd = C_gumWrite =>
            variant = "lib" /\ Supplied(DescriptionFlags) = null
       /\ log[i].cmd = C_gumLabels =>
            variant = "part" /\ ~ListGiven(LabelFlags)
       /\ log[i].cmd = C_gumReviewers =>
            variant = "part" /\ ~ListGiven(ReviewerFlags)
       /\ log[i].cmd = C_gumAssignees =>
            variant = "part" /\ ~ListGiven(AssigneeFlags)
  /\ ( /\ TitleAndBaseSupplied
       /\ variant = "lib" => Supplied(DescriptionFlags) # null
       /\ variant = "part" =>
            /\ ListGiven(LabelFlags) /\ ListGiven(ReviewerFlags)
            /\ ListGiven(AssigneeFlags) )
     => ~PromptIssued

\* part_000 resolved its inputs with title, base and the three lists
\* supplied, and issued no prompt
C13_Witness ==
  /\ variant = "part" /\ TitleAndBaseSupplied
  /\ ListGiven(LabelFlags) /\ ListGiven(ReviewerFlags)
  /\ ListGiven(AssigneeFlags)
  /\ Resolved /\ ~PromptIssued

(***************************************************************************)
(* C14  the push a dry run announces                                       *)
(***************************************************************************)
\* C14: the dry-run report announces a push exactly when a run without
\* --dry-run, given the same answer of the remote query, issues a push
\* command (the upstream-setting push or the plain push).
C14_DryRunAnnouncesThePush ==
  \A i \in DOMAIN out.report :
    \A j \in DOMAIN log :
      log[j].cmd = C_lsRemote =>
        (out.report[i].wouldPush <=> pushCommand(variant, QueryTrue(j)) # <<>>)

(***************************************************************************)
(* C15  exit codes                                                         *)
(***************************************************************************)
\* the commands whose failure main does not catch
FatalCmds ==
  CheckCmds \cup {C_showCurrent, C_gumTitle, C_gumBase, C_prCreate} \cup PushCmds

RunEnded == pc \in {"done", "failed"}

\* the three ways a run ends Done
EndedWithHelp == out.help /\ log = <<>>
EndedWithReport == Len(out.report) = 1 /\ ~PushIssued /\ ~PrIssued
EndedWithSubmission ==
  log # <<>> /\ log[Len(log)].cmd = C_prCreate /\ log[Len(log)].ok

\* C15: the exit code is 0 exactly when the run ended Done, which is after
\* a successful submission, a dry-run report or the help text, and 1
\* exactly when it ended Failed; a failure that ends the run has its
\* message on the error stream, and the failure of any command main does
\* not catch ends the run Failed.
C15_ExitCodeFollowsOutcome ==
  /\ pc = "done" => exitCode = 0
  /\ pc = "failed" => exitCode = 1
  /\ ~RunEnded => exitCode = NoExit
  /\ pc = "done" =>
       /\ error = NoError
       /\ EndedWithHelp \/ EndedWithReport \/ EndedWithSubmission
  /\ pc = "failed" => error # NoError
  /\ error # NoError => pc = "failed"
  /\ \A i \in DOMAIN log :
       log[i].cmd \in FatalCmds /\ ~log[i].ok => pc = "failed"

\* a run failed after its push had succeeded
C15_Witness ==
  /\ pc = "failed" /\ exitCode = 1 /\ error = E_createFailed
  /\ \E i \in DOMAIN log : log[i].cmd \in PushCmds /\ log[i].ok

(***************************************************************************)
(* C16  no retries                                                         *)
(***************************************************************************)
Positions(cmds) == {i \in DOMAIN log : log[i].cmd \in cmds}

\* C16: in any run the push command is issued at most once and the
\* pull-request-creation command at most once, whether they succeed or fail.
C16_AtMostOnePushAndOneCreate ==
  /\ Cardinality(Positions(PushCmds)) <= 1
  /\ Cardinality(Positions({C_prCreate})) <= 1

\* a push failed and the run ended without a second attempt
C16_Witness ==
  /\ pc = "failed" /\ log # <<>>
  /\ log[Len(log)].cmd \in PushCmds /\ ~log[Len(log)].ok
  /\ Cardinality(Positions(PushCmds)) = 1

(***************************************************************************)
(* C17  mixed mode                                                         *)
(***************************************************************************)
\* C17 as stated: once the inputs are resolved, among title, description
\* and base a prompt was issued for exactly the fields the command line
\* did not supply, and a supplied description is the description used.
C17_PromptExactlyForFieldsNotSupplied ==
  Resolved =>
    /\ Issued(C_gumTitle) <=> Supplied(TitleFlags) = null
    /\ Issued(C_gumWrite) <=> Supplied(DescriptionFlags) = null
    /\ Issued(C_gumBase) <=> Supplied(BaseFlags) = null
    /\ Supplied(DescriptionFlags) # null =>
         req.description = Supplied(DescriptionFlags)

\* C17 amended: once the inputs are resolved, the title and the base were
\* prompted for exactly when missing or empty on the command line; the
\* description was prompted for exactly when not supplied in lib/index.js
\* and never in part_000; no prompt ran twice; a supplied description,
\* the empty string included, is the description used.
C17_MixedModePrompts ==
  Resolved =>
    /\ Issued(C_gumTitle) <=> Falsy(Supplied(TitleFlags))
    /\ Issued(C_gumBase) <=> Falsy(Supplied(BaseFlags))
    /\ Issued(C_gumWrite) <=>
         variant = "lib" /\ Supplied(DescriptionFlags) = null
    /\ \A c \in {C_gumTitle, C_gumWrite, C_gumBase} :
         Cardinality(Positions({c})) <= 1
    /\ Supplied(DescriptionFlags) # null =>
         req.description = Supplied(DescriptionFlags)

\* lib/index.js, title and base supplied: only the description was prompted
C17_Witness ==
  /\ variant = "lib" /\ TitleAndBaseSupplied
  /\ Supplied(DescriptionFlags) = null /\ Resolved
  /\ Issued(C_gumWrite) /\ ~Issued(C_gumTitle) /\ ~Issued(C_gumBase)

(***************************************************************************)
(* C18  when the prompt tool is required                                   *)
(***************************************************************************)
GumMissing == \E i \in DOMAIN log : log[i].cmd = C_whichGum /\ ~log[i].ok

\* the run failed on a prompt command
FailedOnPrompt ==
  pc = "failed" /\ log # <<>> /\ log[Len(log)].cmd \in PromptCmds

\* C18 as stated: with title and base both supplied the prompt tool is not
\* looked for and its absence never fails the run; with either missing the
\* prompt tool is the first thing checked and its absence fails the run
\* there, before any other check.
C18_GumRequiredOnlyForTitleOrBase ==
  /\ TitleAndBaseSupplied =>
       ~Issued(C_whichGum) /\ error # E_gumMissing /\ ~FailedOnPrompt
  /\ ~TitleAndBaseSupplied /\ log # <<>> => log[1].cmd = C_whichGum
  /\ GumMissing =>
       pc = "failed" /\ error = E_gumMissing /\ Len(log) = 1

\* what the command line leaves for the prompt tool to be required for
GumRequired ==
  \/ ~TitleAndBaseSupplied
  \/ variant = "lib" /\ Falsy(Supplied(DescriptionFlags))

\* C18 amended: the prompt tool is required when title or base is missing
\* or empty on the command line and, in lib/index.js, also when the
\* description is. When not required it is not looked for and no failed
\* prompt fails the run; when required it is the first command of the run
\* and its absence fails the run there, before any other check.
C18_GumRequiredWhenAPromptMayRun ==
  /\ ~GumRequired =>
       ~Issued(C_whichGum) /\ error # E_gumMissing /\ ~FailedOnPrompt
  /\ GumRequired /\ log # <<>> => log[1].cmd = C_whichGum
  /\ GumMissing =>
       pc = "failed" /\ error = E_gumMissing /\ Len(log) = 1

\* lib/index.js, title and base supplied, no description: the run failed
\* on the missing prompt tool
C18_Witness ==
  /\ variant = "lib" /\ TitleAndBaseSupplied
  /\ Supplied(DescriptionFlags) = null
  /\ GumMissing /\ pc = "failed" /\ error = E_gumMissing

\* part_000, title and base supplied: a list prompt failed and the run
\* went on to resolve its inputs
C18_WitnessPromptFailureTolerated ==
  /\ variant = "part" /\ TitleAndBaseSupplied /\ Resolved
  /\ \E i \in DOMAIN log : log[i].cmd \in PromptCmds /\ ~log[i].ok

(***************************************************************************)
(* C19  the branch pushed and the head of the pull request                 *)
(***************************************************************************)
\* the source branch as the command line and the current-branch query give it
SourceFromInputs ==
  IF ~Falsy(Supplied(SourceFlags)) THEN Supplied(SourceFlags)
  ELSE LET at == Positions({C_showCurrent})
       IN IF at = {} THEN null ELSE log[CHOOSE i \in at : TRUE].output

\* C19: in a run without --dry-run the branch the push command pushes and
\* the head of the pull-request command are both the resolved source
\* branch: the --source value when supplied, the current branch otherwise.
C19_PushAndHeadAreTheSourceBranch ==
  /\ \A i \in DOMAIN log :
       log[i].cmd \in PushCmds => log[i].branch = SourceFromInputs
  /\ \A i \in DOMAIN out.pr : out.pr[i].head = SourceFromInputs

(***************************************************************************)
(* C20  detached HEAD                                                      *)
(***************************************************************************)
\* the current-branch query succeeded and printed nothing
OnNoBranch ==
  \E i \in DOMAIN log :
    log[i].cmd = C_showCurrent /\ log[i].ok /\ log[i].output = <<>>

\* C20: when no --source is supplied and the current-branch query returns
\* the empty string, the run fails with the not-on-a-branch error and the
\* query is its last command: no last-commit query, prompt, remote query,
\* push or pull-request creation follows.
C20_NoBranchFailsBeforeAnythingElse ==
  OnNoBranch =>
    /\ Falsy(Supplied(SourceFlags))
    /\ pc = "failed" /\ error = E_notOnBranch /\ exitCode = 1
    /\ log[Len(log)].cmd = C_showCurrent
    /\ sourceBranch = null /\ req = NoRequest
    /\ ~PromptIssued /\ ~Issued(C_lsRemote) /\ ~PushIssued /\ ~PrIssued
    /\ ~Issued(C_gitLog)

\* the run failed on the empty current branch after passing the checks
C20_Witness ==
  /\ OnNoBranch /\ Supplied(SourceFlags) = null
  /\ pc = "failed" /\ error = E_notOnBranch
  /\ Issued(C_revParse)

(***************************************************************************)
(* C21  the source branch is a local branch                                *)
(***************************************************************************)
\* C21: a run that is at the push decision or at the submission has a
\* source branch that names a local branch, and no pull-request-creation
\* command is issued for a source branch that names no local branch.
C21_SourceBranchIsLocal ==
  /\ pc \in {"push", "create"} => sourceBranch \in LocalBranches
  /\ PrIssued => SourceFromInputs \in LocalBranches

(***************************************************************************)
(* C22  failure short-circuits, nothing is rolled back                     *)
(***************************************************************************)
\* C22: a failed push is the last command of the run, so no
\* pull-request-creation command follows it; a failed
\* pull-request-creation command is the last command of the run as well,
\* also after a successful push; in both cases the run ends Failed.
C22_FailureShortCircuits ==
  \A i \in DOMAIN log :
    /\ log[i].cmd \in PushCmds /\ ~log[i].ok =>
         pc = "failed" /\ i = Len(log) /\ ~PrIssued
    /\ log[i].cmd = C_prCreate /\ ~log[i].ok =>
         /\ pc = "failed" /\ error = E_createFailed /\ i = Len(log)
         /\ \A j \in 1..(i - 1) : log[j].cmd # C_prCreate
         /\ Cardinality(Positions(PushCmds)) <= 1

\* the push succeeded, the submission failed, and the run ended there
C22_Witness ==
  /\ Len(log) >= 2
  /\ log[Len(log) - 1].cmd \in PushCmds /\ log[Len(log) - 1].ok
  /\ log[Len(log)].cmd = C_prCreate /\ ~log[Len(log)].ok
  /\ pc = "failed"

(***************************************************************************)
(* C23  lists given on the command line                                    *)
(***************************************************************************)
\* the values that follow the uses of the flags fs from position i on, a
\* token that follows a value-taking flag being that flag's value
RECURSIVE ValuesFrom(_, _)
ValuesFrom(fs, i) ==
  IF i >= Len(argv) THEN <<>>
  ELSE IF argv[i] \in fs THEN <<argv[i + 1]>> \o ValuesFrom(fs, i + 2)
  ELSE IF argv[i] \in ValueFlags THEN ValuesFrom(fs, i + 2)
  ELSE ValuesFrom(fs, i + 1)

\* the list the command line gives with the flags fs: one element per use
CliList(fs) == ValuesFrom(fs, 1)

\* the list field of a record, and the prompt and flags of each list field
ListFields == {"labels", "reviewers", "assignees"}
ListOf(r, f) ==
  IF f = "labels" THEN r.labels
  ELSE IF f = "reviewers" THEN r.reviewers ELSE r.assignees
ListPrompt(f) ==
  IF f = "labels" THEN C_gumLabels
  ELSE IF f = "reviewers" THEN C_gumReviewers ELSE C_gumAssignees
ListFlags(f) ==
  IF f = "labels" THEN LabelFlags
  ELSE IF f = "reviewers" THEN ReviewerFlags ELSE AssigneeFlags

\* C23: for labels, reviewers and assignees alike, a non-empty list given
\* on the command line is the resolved list, element for element, and no
\* prompt is issued for it; the prompt of a field is issued only when the
\* command line gives no element for it, and at most once in a run.
C23_GivenListUsedUnchanged ==
  \A f \in ListFields :
    /\ CliList(ListFlags(f)) # <<>> =>
         /\ ~Issued(ListPrompt(f))
         /\ Resolved => ListOf(req, f) = CliList(ListFlags(f))
         /\ \A i \in DOMAIN out.report :
              ListOf(out.report[i], f) = CliList(ListFlags(f))
    /\ Issued(ListPrompt(f)) => CliList(ListFlags(f)) = <<>>
    /\ Cardinality(Positions({ListPrompt(f)})) <= 1

\* part_000 resolved two labels given on the command line, in their order,
\* and prompted for the reviewers it was not given
C23_Witness ==
  /\ variant = "part" /\ Resolved
  /\ CliList(LabelFlags) = <<S_bug, S_urgent>> /\ req.labels = <<S_bug, S_urgent>>
  /\ ~Issued(C_gumLabels)
  /\ CliList(ReviewerFlags) = <<>> /\ Issued(C_gumReviewers)

(***************************************************************************)
(* C24  the list read from a comma-list prompt                             *)
(***************************************************************************)
\* the pieces of s between its commas, from the boundary a (0 or the
\* position of a comma) on, in order
RECURSIVE PiecesFrom(_, _)
PiecesFrom(s, a) ==
  LET later == {i \in (a + 1)..Len(s) : s[i] = ","}
      b == IF later = {} THEN Len(s) + 1
           ELSE CHOOSE i \in later : \A j \in later : i <= j
      piece == SubSeq(s, a + 1, b - 1)
  IN IF later = {} THEN <<piece>> ELSE <<piece>> \o PiecesFrom(s, b)

\* s without its leading and trailing blanks
Stripped(s) ==
  LET solid == {i \in DOMAIN s : s[i] \notin {" ", "\n"}}
  IN IF solid = {} THEN <<>>
     ELSE SubSeq(s, CHOOSE i \in solid : \A j \in solid : i <= j,
                    CHOOSE i \in solid : \A j \in solid : j <= i)

IsSolid(s) == s # <<>>

\* the list a comma-separated text stands for
CommaListOf(s) ==
  LET pieces == PiecesFrom(s, 0)
  IN SelectSeq([k \in DOMAIN pieces |-> Stripped(pieces[k])], IsSolid)

\* C24: the list resolved from an answered comma-list prompt is the answer
\* split on commas, each element trimmed, empty elements dropped, in the
\* order typed; an empty answer gives the empty list, and no element of
\* the list is empty or blank.
C24_PromptedListIsSplitTrimmedFiltered ==
  \A f \in ListFields :
    \A i \in DOMAIN log :
      log[i].cmd = ListPrompt(f) /\ log[i].ok /\ Resolved =>
        /\ ListOf(req, f) = CommaListOf(log[i].output)
        /\ log[i].output = <<>> => ListOf(req, f) = <<>>
        /\ \A k \in DOMAIN ListOf(req, f) :
             /\ Stripped(ListOf(req, f)[k]) # <<>>
             /\ Stripped(ListOf(req, f)[k]) = ListOf(req, f)[k]
             /\ \A c \in DOMAIN ListOf(req, f)[k] : ListOf(req, f)[k][c] # ","

\* the labels prompt was answered "x, ,y " and resolved to x and y
C24_Witness ==
  /\ Resolved
  /\ \E i \in DOMAIN log :
       /\ log[i].cmd = C_gumLabels /\ log[i].ok
       /\ log[i].output = <<"x", ",", " ", ",", "y">>
  /\ req.labels = << <<"x">>, <<"y">> >>

(***************************************************************************)
(* C25  cancelled prompts                                                  *)
(***************************************************************************)
\* C25: a cancelled or failing labels, reviewers or assignees prompt
\* leaves that list empty and the run goes on past input resolution; a
\* cancelled or failing title or destination-branch prompt is the last
\* command of a run that ends Failed.
C25_CancelledListPromptIsEmptyInput ==
  /\ \A f \in ListFields :
       \A i \in DOMAIN log :
         log[i].cmd = ListPrompt(f) /\ ~log[i].ok =>
           /\ Resolved
           /\ ListOf(req, f) = <<>>
           /\ ~FailedOnPrompt
  /\ \A i \in DOMAIN log :
       log[i].cmd \in {C_gumTitle, C_gumBase} /\ ~log[i].ok =>
         pc = "failed" /\ exitCode = 1 /\ i = Len(log) /\ ~Resolved

\* the labels prompt was cancelled and the run went on to create the
\* pull request without labels
C25_Witness ==
  /\ \E i \in DOMAIN log : log[i].cmd = C_gumLabels /\ ~log[i].ok
  /\ req.labels = <<>>
  /\ pc = "done" /\ Len(out.pr) = 1 /\ out.pr[1].label = <<>>

(***************************************************************************)
(* C26  a failing remote query                                             *)
(***************************************************************************)
\* C26: a remote-branch query that fails never ends the run by itself: in
\* a run without --dry-run the next command is the upstream-setting push
\* of the source branch, and a dry run ends Done with a report that
\* announces the push.
C26_FailedRemoteQueryMeansNoRemoteBranch ==
  \A i \in DOMAIN log :
    log[i].cmd = C_lsRemote /\ ~log[i].ok =>
      IF HasFlag({F_dryRun})
      THEN /\ i = Len(log) /\ pc = "done" /\ error = NoError
           /\ Len(out.report) = 1 /\ out.report[1].wouldPush
      ELSE /\ i < Len(log)
           /\ IsUpstreamPush(log[i + 1])

\* the remote query failed, the upstream-setting push followed and the
\* run ended with a pull request created
C26_Witness ==
  /\ \E i \in DOMAIN log :
       /\ log[i].cmd = C_lsRemote /\ ~log[i].ok
       /\ i < Len(log) /\ IsUpstreamPush(log[i + 1])
  /\ pc = "done" /\ Len(out.pr) = 1

(***************************************************************************)
(* C27  the arguments of the pull-request-creation command                 *)
(***************************************************************************)
\* the optional list argument a resolved list calls for
ListArgument(list) ==
  IF list = <<>> THEN <<>> ELSE <<Join(list, <<",">>)>>

NoCommaIn(list) ==
  \A k \in DOMAIN list : \A c \in DOMAIN list[k] : list[k][c] # ","

\* C27: every pull-request-creation command carries the base, the source
\* branch as head, the title and the body; it carries --draft exactly when
\* the resolved draft is true, --label, --reviewer and --assignee exactly
\* when the resolved list is not empty, with its elements comma-joined in
\* list order, and --web exactly when the command line asked for it.
C27_CommandCarriesResolvedArguments ==
  /\ PrIssued <=> Len(out.pr) = 1
  /\ \A i \in DOMAIN out.pr :
       LET c == out.pr[i] IN
       /\ c.head = sourceBranch /\ c.head # <<>> /\ c.head # null
       /\ c.title = EscapeQuotes(req.title) /\ c.title # <<>>
       /\ c.body = EscapeQuotes(req.description)
       /\ c.base \in {req.destBranch, stripOrigin(req.destBranch)}
       /\ c.draft <=> req.draft
       /\ c.web <=> HasFlag(WebFlags(variant))
       /\ \A f \in ListFields :
            LET arg == IF f = "labels" THEN c.label
                       ELSE IF f = "reviewers" THEN c.reviewer ELSE c.assignee
            IN /\ arg = ListArgument(ListOf(req, f))
               /\ arg # <<>> <=> ListOf(req, f) # <<>>
               /\ arg # <<>> /\ NoCommaIn(ListOf(req, f)) =>
                    PiecesFrom(arg[1], 0) = ListOf(req, f)

\* a draft pull request was created with two labels and no reviewer
C27_Witness ==
  /\ Len(out.pr) = 1 /\ pc = "done"
  /\ out.pr[1].draft /\ ~out.pr[1].web
  /\ out.pr[1].label = << S_bug \o <<",">> \o S_urgent >>
  /\ out.pr[1].reviewer = <<>>

(***************************************************************************)
(* C28  the dry-run report against the command a real run builds           *)
(***************************************************************************)
\* the pull-request-creation command main would build from the resolved
\* inputs of the current run
WouldSubmit ==
  prCommand(req.title, req.description, sourceBranch, req.destBranch,
            prOptions(args, req))

\* C28: the values a dry-run report shows are those the
\* pull-request-creation command of a run without --dry-run would carry:
\* the same base (after the origin/ prefix is handled), the same draft,
\* head, lists and browser flag.
C28_ReportShowsWhatWouldBeSubmitted ==
  \A i \in DOMAIN out.report :
    /\ out.report[i].base = WouldSubmit.base
    /\ out.report[i].draft = WouldSubmit.draft
    /\ out.report[i].source = WouldSubmit.head
    /\ out.report[i].web = WouldSubmit.web
    /\ ListArgument(out.report[i].labels) = WouldSubmit.label
    /\ ListArgument(out.report[i].reviewers) = WouldSubmit.reviewer
    /\ ListArgument(out.report[i].assignees) = WouldSubmit.assignee

====
